---- MODULE Spec2Model ----
(***************************************************************************)
(* A model of docs/deployment.ipynb: the declarative API gateway (cells 1  *)
(* and 2), the to-do application with client-managed state (cell 3) and    *)
(* the requests sent to it (cell 4).                                       *)
(*                                                                         *)
(* Python objects that can be aliased (the FastAPI applications, the       *)
(* ToDoState instances and their todos lists) live in heaps indexed by     *)
(* object identities, so that sharing an object between two requests is    *)
(* something the model can express and the checks can refute.              *)
(***************************************************************************)
EXTENDS Integers, Sequences, FiniteSets, TLC

\* The longest list of to-dos a client lets its state grow to.
MaxTodos == 2

\* The threads that execute run: two requests are handled at the same time.
Workers == {"w1", "w2"}

(***************************************************************************)
(* Data model (cell 3, lines 106-125).                                     *)
(***************************************************************************)

\* Python's None, the default of ToDo.due_date.
None == "None"

\* The date-times of the example: ISO strings as they are serialized.
DateTimes == {"2023-07-19T09:00:00"}

\* ToDo(title=..., description=...) with a field missing: a faulty variant
\* of the class that forgets the completion flag.
NewToDoNoDone(title, description) ==
    [title |-> title, description |-> description, due_date |-> None]

\* A faulty variant whose completion flag defaults to True.
NewToDoDoneTrue(title, description) ==
    [title |-> title, description |-> description, due_date |-> None,
     done |-> TRUE]

\* ToDo(title=..., description=...): due_date and done take their defaults.
NewToDo(title, description) ==
    [title |-> title, description |-> description, due_date |-> None,
     done |-> FALSE]

\* ToDo(title=..., description=..., due_date=...).
NewToDoDue(title, description, due_date) ==
    [NewToDo(title, description) EXCEPT !.due_date = due_date]

\* The schema of ToDo: fields as typed.
IsToDo(t) ==
    /\ DOMAIN t = {"title", "description", "due_date", "done"}
    /\ t.title \in STRING
    /\ t.description \in STRING
    /\ t.due_date = None \/ t.due_date \in DateTimes
    /\ t.done \in BOOLEAN

\* The schema of ToDoState: an ordered list of ToDo.
IsToDoState(s) ==
    /\ DOMAIN s = {"todos"}
    /\ DOMAIN s.todos = 1..Len(s.todos)
    /\ \A i \in DOMAIN s.todos : IsToDo(s.todos[i])

\* The schema of ToDoResponse: a text content and the state.
IsToDoResponse(b) ==
    /\ DOMAIN b = {"content", "state"}
    /\ b.content \in STRING
    /\ IsToDoState(b.state)

\* ToDoResponse(content=..., state=...).
ToDoResponse(content, todos) ==
    [content |-> content, state |-> [todos |-> todos]]

\* The JSON the notebook shows as the mock request's response.
ExampleResponse ==
    [content |-> "You have an appointment with Craig tomorrow at 9AM.",
     state |-> [todos |-> <<
        [title |-> "Appointment with Craig",
         description |-> "Meeting with Craig tomorrow at 9AM",
         due_date |-> "2023-07-19T09:00:00",
         done |-> FALSE] >>]]

(***************************************************************************)
(* Object identities.                                                      *)
(***************************************************************************)

\* The application object made by FastAPI() in cell 1 (line 31).
GatewayApp == "FastAPI@31"
\* The application object made by FastAPI() in cell 3 (line 103).
TodoApp == "FastAPI@103"
Apps == {GatewayApp, TodoApp}
\* The name app before cell 1 has run.
Unbound == "unbound"

ObjId(kind, w) == [kind |-> kind, worker |-> w]
\* The list literal [] that is the declared default of ToDoState.todos.
LClass == ObjId("class_default", "")
\* The todos list of the ToDoState() evaluated once as run's default argument.
LDef == ObjId("run_default", "")
\* The ToDoState() evaluated once as run's default argument.
SDef == ObjId("run_default", "")
\* No object.
NoRef == ObjId("null", "")
\* The ToDoState the framework hands to run on worker w, and its list.
ReqState(w) == ObjId("param", w)
ReqList(w) == ObjId("param", w)
\* A ToDoState, and a list, the assistant creates while run is on worker w.
NewState(w) == ObjId("assistant", w)
NewList(w) == ObjId("assistant", w)

ListIds == {LClass, LDef} \cup {ReqList(w) : w \in Workers}
                          \cup {NewList(w) : w \in Workers}
StateIds == {SDef} \cup {ReqState(w) : w \in Workers}
                   \cup {NewState(w) : w \in Workers}

VARIABLES
    nbpc,      \* the next notebook statement
    app,       \* the object the notebook's name app is bound to
    routes,    \* routes[a]: the routes registered on application object a
    server,    \* the uvicorn server of cell 2: its state and the app it serves
    gateway,   \* the handler serving the gateway request in flight, or "idle"
    lists,     \* heap of list objects: lists[l] is the content of list l
    states,    \* heap of ToDoState objects: states[s] is the list s.todos names
    req,       \* the request each worker serves: position in run, locals, response
    client     \* the state the client keeps, from a response it has received

vars == <<nbpc, app, routes, server, gateway, lists, states, req, client>>

nbVars == <<nbpc, app, routes, server, gateway>>
heapVars == <<lists, states>>

Route(path, handler) == [path |-> path, handler |-> handler]

\* The response slot of a request that has not been answered.
NoResponse == [status |-> "none"]
\* What the framework answers when run raises: no ToDoResponse.
ErrorResponse == [status |-> "error"]
OkResponse(body) == [status |-> "ok", body |-> body]

NoPayload == [kind |-> "absent", todos |-> << >>]

IdleRequest ==
    [pc |-> "idle", update |-> "", payload |-> NoPayload,
     state |-> NoRef, todo |-> NoRef, content |-> "", calls |-> 0,
     exc |-> "none", resp |-> NoResponse]

Init ==
    /\ nbpc = "c1_app"
    /\ app = Unbound
    /\ routes = [a \in Apps |-> {}]
    /\ server = [state |-> "none", app |-> Unbound]
    /\ gateway = "idle"
    /\ lists = [l \in ListIds |-> << >>]
    /\ states = [s \in StateIds |-> NoRef]
    /\ req = [w \in Workers |-> IdleRequest]
    /\ client = NoPayload

(***************************************************************************)
(* Cell 1: the declarative API gateway (lines 25-52).                      *)
(***************************************************************************)

\* app = FastAPI()
NewGatewayApp ==
    /\ nbpc = "c1_app"
    /\ app' = GatewayApp
    /\ nbpc' = "c1_fruits"
    /\ UNCHANGED <<routes, server, gateway, lists, states, req, client>>

\* app.add_api_route(path, endpoint), the statement at position at.
AddApiRoute(at, next, path, handler) ==
    /\ nbpc = at
    /\ routes' = [routes EXCEPT
                    ![app] = {x \in @ : x.path # path} \cup {Route(path, handler)}]
    /\ nbpc' = next
    /\ UNCHANGED <<app, server, gateway, lists, states, req, client>>

AddFruits ==
    AddApiRoute("c1_fruits", "c1_vegetables", "/generate_fruits", "generate_fruits")

AddVegetables ==
    AddApiRoute("c1_vegetables", "c1_person", "/generate_vegetables",
                "generate_vegetables")

AddPerson ==
    AddApiRoute("c1_person", "c2_config", "/person/extract", "Person.route")

(***************************************************************************)
(* Cell 2: serving the gateway from the notebook (lines 72-74).            *)
(***************************************************************************)

\* config = uvicorn.Config(app); server = uvicorn.Server(config)
MakeServer ==
    /\ nbpc = "c2_config"
    /\ server' = [state |-> "created", app |-> app]
    /\ nbpc' = "c2_serve"
    /\ UNCHANGED <<app, routes, gateway, lists, states, req, client>>

\* A faulty variant: the serve loop is started as a background task and the
\* cell goes on.
ServeStartDetached ==
    /\ nbpc = "c2_serve"
    /\ server' = [server EXCEPT !.state = "serving"]
    /\ nbpc' = "c3_app"
    /\ UNCHANGED <<app, routes, gateway, lists, states, req, client>>

\* await server.serve(): the cell is suspended in the call while the server
\* serves.
ServeStart ==
    /\ nbpc = "c2_serve"
    /\ server' = [server EXCEPT !.state = "serving"]
    /\ nbpc' = "c2_await"
    /\ UNCHANGED <<app, routes, gateway, lists, states, req, client>>

\* The handler registered for path on application a, or "404".
Dispatch(a, path) ==
    IF \E x \in routes[a] : x.path = path
    THEN (CHOOSE x \in routes[a] : x.path = path).handler
    ELSE "404"

GatewayPaths == {"/generate_fruits", "/generate_vegetables", "/person/extract", "/"}

\* The serving loop takes a request and routes it.
GatewayDispatch ==
    /\ server.state = "serving"
    /\ gateway = "idle"
    /\ \E path \in GatewayPaths : gateway' = Dispatch(server.app, path)
    /\ UNCHANGED <<nbpc, app, routes, server, lists, states, req, client>>

\* The serving loop answers the request in flight.
GatewayRespond ==
    /\ server.state = "serving"
    /\ gateway # "idle"
    /\ gateway' = "idle"
    /\ UNCHANGED <<nbpc, app, routes, server, lists, states, req, client>>

\* The server is told to stop, serve() returns and the await completes.
ServeStop ==
    /\ server.state = "serving"
    /\ gateway = "idle"
    /\ server' = [server EXCEPT !.state = "stopped"]
    /\ nbpc' = IF nbpc = "c2_await" THEN "c3_app" ELSE nbpc
    /\ UNCHANGED <<app, routes, gateway, lists, states, req, client>>

(***************************************************************************)
(* Cell 3: the to-do application (lines 97-142).                           *)
(***************************************************************************)

\* A faulty variant: the cell goes on with the application of cell 1.
KeepGatewayApp ==
    /\ nbpc = "c3_app"
    /\ nbpc' = "c3_models"
    /\ UNCHANGED <<app, routes, server, gateway, lists, states, req, client>>

\* app = FastAPI()
NewTodoApp ==
    /\ nbpc = "c3_app"
    /\ app' = TodoApp
    /\ nbpc' = "c3_models"
    /\ UNCHANGED <<routes, server, gateway, lists, states, req, client>>

\* The class statements: the default of ToDoState.todos, [], is evaluated once.
DefineModels ==
    /\ nbpc = "c3_models"
    /\ lists' = [lists EXCEPT ![LClass] = << >>]
    /\ nbpc' = "c3_run"
    /\ UNCHANGED <<app, routes, server, gateway, states, req, client>>

\* A faulty variant: an instance's todos is the declared default list itself.
SharedDefaultTodos(l) == LClass

\* The list an instance made without todos gets: a copy of the declared
\* default, an object of its own.
DefaultTodos(l) == l

\* ToDoState() when given is FALSE, ToDoState(todos=todos) when it is TRUE:
\* the object s is made and its list is l. The heaps after the construction.
ToDoState(s, l, given, todos) ==
    IF given
    THEN [states |-> [states EXCEPT ![s] = l],
          lists |-> [lists EXCEPT ![l] = todos]]
    ELSE [states |-> [states EXCEPT ![s] = DefaultTodos(l)],
          lists |-> [lists EXCEPT ![l] = lists[LClass]]]

\* @app.get("/") def run(update: str, state: ToDoState = ToDoState()): the
\* default is evaluated once, here, and run is registered on app.
DefineRun ==
    /\ nbpc = "c3_run"
    /\ LET h == ToDoState(SDef, LDef, FALSE, << >>)
       IN /\ states' = h.states
          /\ lists' = h.lists
    /\ routes' = [routes EXCEPT
                    ![app] = {x \in @ : x.path # "/"} \cup {Route("/", "run")}]
    /\ nbpc' = "c4"
    /\ UNCHANGED <<app, server, gateway, req, client>>

(***************************************************************************)
(* The assistant: AIApplication of marvin.beta.applications.                *)
(***************************************************************************)

AddCraig == "Remind me I have an appointment with Craig tomorrow at 9AM"
AddMilk == "Add a to-do: buy milk"
RemoveFirst == "Remove the first to-do"

\* The instructions the clients send.
Updates == {AddCraig, AddMilk, RemoveFirst}

\* The to-dos after the assistant has processed update on todos.
NextTodos(update, todos) ==
    CASE update = AddCraig ->
           Append(todos, NewToDoDue("Appointment with Craig",
                                    "Meeting with Craig tomorrow at 9AM",
                                    "2023-07-19T09:00:00"))
      [] update = AddMilk -> Append(todos, NewToDo("Buy milk", "Buy milk today"))
      [] update = RemoveFirst -> IF todos = << >> THEN todos ELSE Tail(todos)
      [] OTHER -> todos

\* The assistant's reply to update.
Reply(update) ==
    CASE update = AddCraig -> "You have an appointment with Craig tomorrow at 9AM."
      [] update = AddMilk -> "I added a to-do to buy milk."
      [] update = RemoveFirst -> "I removed the first to-do."
      [] OTHER -> "I did not understand."

\* How the assistant writes its updated state: it changes the list in place,
\* it assigns a new list to the state object, or it makes a new state object.
WriteModes == {"in_place", "assign", "replace"}

\* The heaps and the assistant's state after it has written todos in mode.
WriteState(w, mode, todos) ==
    LET s == req[w].todo
    IN CASE mode = "in_place" ->
              [todo |-> s, states |-> states,
               lists |-> [lists EXCEPT ![states[s]] = todos]]
         [] mode = "assign" ->
              [todo |-> s, states |-> [states EXCEPT ![s] = NewList(w)],
               lists |-> [lists EXCEPT ![NewList(w)] = todos]]
         [] OTHER ->
              [todo |-> NewState(w),
               states |-> [states EXCEPT ![NewState(w)] = NewList(w)],
               lists |-> [lists EXCEPT ![NewList(w)] = todos]]

(***************************************************************************)
(* Requests to GET / (lines 128-142, 164-167).                             *)
(***************************************************************************)

InFlight(w) == req[w].pc \in {"run", "built", "called"}

EmptyPayload == [kind |-> "empty", todos |-> << >>]

\* What a client sends as state: nothing, the empty object {}, or the state
\* it keeps.
Payloads ==
    {NoPayload, EmptyPayload} \cup (IF client.kind = "todos" THEN {client} ELSE {})

\* A faulty variant: run is called with the default object itself.
ResolveAbsentShared(w) ==
    [ref |-> SDef, states |-> states, lists |-> lists]

\* No state in the request: the framework passes a deep copy of the declared
\* default to run.
ResolveAbsent(w) ==
    [ref |-> ReqState(w),
     states |-> [states EXCEPT ![ReqState(w)] = ReqList(w)],
     lists |-> [lists EXCEPT ![ReqList(w)] = lists[states[SDef]]]]

\* A faulty variant: the state in the request is not read.
ResolveStateIgnored(w, payload) == ResolveAbsent(w)

\* The framework's resolution of run's parameter state on worker w.
ResolveState(w, payload) ==
    IF payload.kind = "absent"
    THEN ResolveAbsent(w)
    ELSE LET h == ToDoState(ReqState(w), ReqList(w), payload.kind = "todos",
                            payload.todos)
         IN [ref |-> ReqState(w), states |-> h.states, lists |-> h.lists]

\* The objects made for the request on worker w are dropped.
Discard(w, ss, ls) ==
    [states |-> [s \in StateIds |->
                    IF s \in {ReqState(w), NewState(w)} THEN NoRef ELSE ss[s]],
     lists |-> [l \in ListIds |->
                    IF l \in {ReqList(w), NewList(w)} THEN << >> ELSE ls[l]]]

\* TestClient(app).get(url="/", params={"update": update}) and the requests
\* of other clients: the request is routed on app and run is entered.
Receive(w) ==
    /\ nbpc = "c4"
    /\ req[w].pc = "idle"
    /\ Dispatch(app, "/") = "run"
    /\ \E update \in Updates, payload \in Payloads :
          LET h == ResolveState(w, payload)
          IN /\ update \in {AddCraig, AddMilk} => Len(payload.todos) < MaxTodos
             /\ req' = [req EXCEPT ![w] = [@ EXCEPT !.pc = "run",
                                                    !.update = update,
                                                    !.payload = payload,
                                                    !.state = h.ref]]
             /\ states' = h.states
             /\ lists' = h.lists
    /\ UNCHANGED <<nbVars, client>>

\* todo = AIApplication(state=state, description=description)
Build(w) ==
    /\ req[w].pc = "run"
    /\ req' = [req EXCEPT ![w] = [@ EXCEPT !.pc = "built", !.todo = req[w].state]]
    /\ UNCHANGED <<nbVars, lists, states, client>>

\* The exception leaves run: the framework answers with an error.
Raise(w, what, ss, ls) ==
    LET h == Discard(w, ss, ls)
    IN /\ req' = [req EXCEPT ![w] = [@ EXCEPT !.pc = "raised", !.exc = what,
                                              !.state = NoRef, !.todo = NoRef,
                                              !.resp = ErrorResponse]]
       /\ states' = h.states
       /\ lists' = h.lists

\* AIApplication(...) raises.
BuildFails(w) ==
    /\ req[w].pc = "run"
    /\ Raise(w, "build", states, lists)
    /\ UNCHANGED <<nbVars, client>>

\* response = todo(update)
Call(w) ==
    /\ req[w].pc = "built"
    /\ \E mode \in WriteModes :
          LET h == WriteState(w, mode, NextTodos(req[w].update,
                                                 lists[states[req[w].todo]]))
          IN /\ req' = [req EXCEPT ![w] = [@ EXCEPT !.pc = "called",
                                                    !.todo = h.todo,
                                                    !.content = Reply(req[w].update),
                                                    !.calls = @ + 1]]
             /\ states' = h.states
             /\ lists' = h.lists
    /\ UNCHANGED <<nbVars, client>>

\* A faulty variant: run catches the failure and answers with the state as
\* the assistant left it.
CallFailsCaught(w) ==
    /\ req[w].pc = "built"
    /\ LET h == WriteState(w, "in_place",
                           NextTodos(req[w].update, lists[states[req[w].todo]]))
           d == Discard(w, h.states, h.lists)
       IN /\ req' = [req EXCEPT ![w] =
                        [@ EXCEPT !.pc = "done", !.exc = "call", !.calls = @ + 1,
                                  !.state = NoRef, !.todo = NoRef,
                                  !.resp = OkResponse(ToDoResponse("",
                                              h.lists[h.states[h.todo]]))]]
          /\ states' = d.states
          /\ lists' = d.lists
    /\ UNCHANGED <<nbVars, client>>

\* todo(update) raises, before the assistant has written anything or after
\* it has changed its state in place.
CallFails(w) ==
    /\ req[w].pc = "built"
    /\ \E partial \in BOOLEAN :
          LET h == IF partial
                   THEN WriteState(w, "in_place",
                                   NextTodos(req[w].update,
                                             lists[states[req[w].todo]]))
                   ELSE [todo |-> req[w].todo, states |-> states, lists |-> lists]
          IN Raise(w, "call", h.states, h.lists)
    /\ UNCHANGED <<nbVars, client>>

\* A faulty variant: the state that was passed in is returned.
SubmittedState(w) == req[w].state

\* todo.state, the state run returns.
ReturnedState(w) == req[w].todo

\* return ToDoResponse(content=response.content, state=todo.state), and the
\* framework serializes it.
Return(w) ==
    /\ req[w].pc = "called"
    /\ LET body == ToDoResponse(req[w].content, lists[states[ReturnedState(w)]])
           h == Discard(w, states, lists)
       IN /\ req' = [req EXCEPT ![w] = [@ EXCEPT !.pc = "done",
                                                 !.state = NoRef, !.todo = NoRef,
                                                 !.resp = OkResponse(body)]]
          /\ states' = h.states
          /\ lists' = h.lists
    /\ UNCHANGED <<nbVars, client>>

\* response.json(): the client reads the response and keeps its state, or
\* goes on with the state it had.
Deliver(w) ==
    /\ req[w].pc = "done"
    /\ \E keep \in BOOLEAN :
          client' = IF keep
                    THEN [kind |-> "todos", todos |-> req[w].resp.body.state.todos]
                    ELSE client
    /\ req' = [req EXCEPT ![w] = IdleRequest]
    /\ UNCHANGED <<nbVars, lists, states>>

\* The client reads the error response.
DeliverError(w) ==
    /\ req[w].pc = "raised"
    /\ req' = [req EXCEPT ![w] = IdleRequest]
    /\ UNCHANGED <<nbVars, lists, states, client>>

Next ==
    \/ NewGatewayApp
    \/ AddFruits
    \/ AddVegetables
    \/ AddPerson
    \/ MakeServer
    \/ ServeStart
    \/ GatewayDispatch
    \/ GatewayRespond
    \/ ServeStop
    \/ NewTodoApp
    \/ DefineModels
    \/ DefineRun
    \/ \E w \in Workers : Receive(w)
    \/ \E w \in Workers : Build(w)
    \/ \E w \in Workers : BuildFails(w)
    \/ \E w \in Workers : Call(w)
    \/ \E w \in Workers : CallFails(w)
    \/ \E w \in Workers : Return(w)
    \/ \E w \in Workers : Deliver(w)
    \/ \E w \in Workers : DeliverError(w)

Spec == Init /\ [][Next]_vars

(***************************************************************************)
(* Properties.                                                             *)
(***************************************************************************)

\* The to-dos of the state a request passes in.
InitialTodos(payload) == IF payload.kind = "todos" THEN payload.todos ELSE << >>

\* The to-dos run's parameter state holds on worker w.
ParamTodos(w) == lists[states[req[w].state]]

\* The to-dos the assistant's state holds on worker w.
AssistantTodos(w) == lists[states[req[w].todo]]

\* The to-dos the assistant derives from the request on worker w alone.
OwnTodos(w) == NextTodos(req[w].update, InitialTodos(req[w].payload))

\* C1: whenever run has returned for a request with update u and state s, the
\* update was issued to the assistant exactly once, the response's content is
\* the assistant's reply to u, and the response's state is the state the
\* assistant has after processing u from s, not s as it was submitted.
C1_RunReturnsReplyAndUpdatedState ==
    \A w \in Workers :
        req[w].pc = "done" =>
            /\ req[w].calls = 1
            /\ req[w].resp =
                 OkResponse(ToDoResponse(Reply(req[w].update), OwnTodos(w)))

\* A response whose state differs from the state that was passed in.
C1_Witness ==
    \E w \in Workers :
        /\ req[w].pc = "done"
        /\ req[w].payload.kind = "todos"
        /\ req[w].resp.body.state.todos # req[w].payload.todos

\* C2: a request that supplies no state is processed from a state whose todos
\* list is empty, whatever requests were served before it: both the state run
\* receives and the state the assistant is built from are empty until the
\* update is issued.
C2_NoStateStartsEmpty ==
    \A w \in Workers :
        req[w].payload.kind = "absent" =>
            /\ req[w].pc = "run" => ParamTodos(w) = << >>
            /\ req[w].pc = "built" =>
                 ParamTodos(w) = << >> /\ AssistantTodos(w) = << >>

\* A request without state is about to be processed from the empty state
\* while the response to a request without state holds a to-do its update
\* added, and the client keeps a state with a to-do from an earlier response.
C2_Witness ==
    \E w1, w2 \in Workers :
        /\ req[w1].pc = "done"
        /\ req[w1].payload.kind = "absent"
        /\ req[w1].resp.body.state.todos # << >>
        /\ req[w2].pc = "built"
        /\ req[w2].payload.kind = "absent"
        /\ AssistantTodos(w2) = << >>
        /\ client.kind = "todos" /\ client.todos # << >>

\* The heaps as the definitions of cell 3 leave them.
HeapAfterDefinitions ==
    /\ lists = [l \in ListIds |-> << >>]
    /\ states = [s \in StateIds |-> IF s = SDef THEN LDef ELSE NoRef]

\* C3: the server holds no to-do state between requests, and the state the
\* assistant starts from is exactly the state passed in with the request
\* (empty when none is passed), whatever the client keeps and whatever other
\* requests are served.
C3_StateIsTheClientsState ==
    /\ (nbpc = "c4" /\ \A w \in Workers : ~InFlight(w)) => HeapAfterDefinitions
    /\ \A w \in Workers :
          /\ req[w].pc = "run" => ParamTodos(w) = InitialTodos(req[w].payload)
          /\ req[w].pc = "built" =>
               AssistantTodos(w) = InitialTodos(req[w].payload)

\* The assistant starts from the to-dos a request passed in, while another
\* request has been answered with a different state and the client has
\* since replaced the state it keeps.
C3_Witness ==
    \E w1, w2 \in Workers :
        /\ req[w1].pc = "built"
        /\ req[w1].payload.kind = "todos"
        /\ req[w1].payload.todos # << >>
        /\ AssistantTodos(w1) = req[w1].payload.todos
        /\ req[w2].pc = "done"
        /\ req[w2].resp.body.state.todos # req[w1].payload.todos
        /\ client # req[w1].payload

\* C4: every response of GET / has the shape of ToDoResponse (a text content,
\* a state with an ordered list todos whose entries have a title, a
\* description, a due_date that is a date-time or none, and a boolean done),
\* and so has the example response of the notebook.
C4_ResponsesMatchSchema ==
    /\ IsToDoResponse(ExampleResponse)
    /\ \A w \in Workers :
          req[w].resp.status = "ok" => IsToDoResponse(req[w].resp.body)

\* The mock request of cell 4 is answered with the example response.
C4_Witness ==
    \E w \in Workers :
        /\ req[w].update = AddCraig
        /\ req[w].payload = NoPayload
        /\ req[w].resp = OkResponse(ExampleResponse)

\* C5: when building the assistant or issuing the update fails, run returns
\* no ToDoResponse: the exception leaves run, the framework answers with an
\* error, and no response carries a state (in particular not a partially
\* updated one).
C5_FailureLeavesRun ==
    \A w \in Workers :
        /\ req[w].exc # "none" =>
             req[w].pc = "raised" /\ req[w].resp = ErrorResponse
        /\ req[w].pc = "raised" =>
             req[w].exc \in {"build", "call"} /\ "body" \notin DOMAIN req[w].resp
        /\ req[w].resp.status = "ok" => req[w].exc = "none"

\* The update was issued and failed, and elsewhere building failed.
C5_Witness ==
    \E w1, w2 \in Workers :
        /\ req[w1].pc = "raised" /\ req[w1].exc = "call"
        /\ req[w1].update = AddMilk
        /\ req[w2].pc = "raised" /\ req[w2].exc = "build"

\* C6: a ToDo made from a title and a description alone has done = false and
\* no due date; a ToDoState made without arguments has an empty todos list;
\* and two ToDoState values made without arguments have lists of their own,
\* none of them the declared default, so that adding to one leaves the other
\* and the default empty.
C6_DefaultsAreFreshAndEmpty ==
    /\ lists[LClass] = << >>
    /\ nbpc = "c4" => states[SDef] # LClass
    /\ \A w \in Workers :
          /\ (req[w].pc = "done" /\ req[w].update = AddMilk) =>
                LET todos == req[w].resp.body.state.todos
                IN /\ todos # << >>
                   /\ todos[Len(todos)].done = FALSE
                   /\ todos[Len(todos)].due_date = None
          /\ (req[w].pc \in {"run", "built"} /\ req[w].payload.kind = "empty") =>
                ParamTodos(w) = << >>
    /\ \A w1, w2 \in Workers :
          (/\ w1 # w2
           /\ InFlight(w1) /\ req[w1].payload.kind = "empty"
           /\ InFlight(w2) /\ req[w2].payload.kind = "empty") =>
             /\ states[req[w1].state] # states[req[w2].state]
             /\ states[req[w1].state] # LClass

\* Two states made from {} are in use; a to-do was added in place to the list
\* of one, and the other is still empty.
C6_Witness ==
    \E w1, w2 \in Workers :
        /\ req[w1].payload.kind = "empty" /\ req[w1].pc = "called"
        /\ req[w1].update = AddMilk
        /\ req[w1].todo = req[w1].state
        /\ states[req[w1].state] = ReqList(w1)
        /\ Len(ParamTodos(w1)) = 1
        /\ req[w2].payload.kind = "empty" /\ req[w2].pc = "built"
        /\ ParamTodos(w2) = << >>

GatewayRoutes ==
    {Route("/generate_fruits", "generate_fruits"),
     Route("/generate_vegetables", "generate_vegetables"),
     Route("/person/extract", "Person.route")}

\* C7: while the server serves, the application it serves has the three
\* gateway routes, each with its own handler, and the notebook is suspended
\* in the awaited serve call; no later statement of the notebook has run
\* unless the server has stopped serving.
C7_RoutesBeforeServeAndServeBlocks ==
    /\ server.state = "serving" =>
          /\ nbpc = "c2_await"
          /\ server.app = GatewayApp
          /\ routes[server.app] = GatewayRoutes
          /\ \A x \in GatewayRoutes : Dispatch(server.app, x.path) = x.handler
    /\ nbpc \in {"c3_app", "c3_models", "c3_run", "c4"} => server.state = "stopped"

\* The serving gateway has routed a request to the handler of /person/extract.
C7_Witness ==
    /\ server.state = "serving"
    /\ gateway = "Person.route"

\* C8: two requests handled at the same time do not affect each other: they
\* work on different state objects and different lists, neither of them the
\* default's, and at every point of run the to-dos of each, and the state in
\* each response, are those derived from the request's own state and update.
C8_ConcurrentRequestsAreIsolated ==
    \A w1, w2 \in Workers :
        (w1 # w2 /\ req[w1].pc # "idle" /\ req[w2].pc # "idle") =>
            /\ InFlight(w1) =>
                 /\ req[w1].state \notin {SDef, req[w2].state, req[w2].todo}
                 /\ states[req[w1].state] \notin {LClass, states[SDef]}
            /\ (InFlight(w1) /\ InFlight(w2)) =>
                 states[req[w1].state] # states[req[w2].state]
            /\ req[w1].pc = "run" =>
                 ParamTodos(w1) = InitialTodos(req[w1].payload)
            /\ req[w1].pc = "built" =>
                 AssistantTodos(w1) = InitialTodos(req[w1].payload)
            /\ req[w1].pc = "called" => AssistantTodos(w1) = OwnTodos(w1)
            /\ req[w1].pc = "done" =>
                 req[w1].resp.body.state.todos = OwnTodos(w1)

\* Two requests without state are in run at the same time, each after its
\* update has added a to-do, and each holds its own to-do only.
C8_Witness ==
    \E w1, w2 \in Workers :
        /\ req[w1].pc = "called" /\ req[w2].pc = "called"
        /\ req[w1].payload.kind = "absent" /\ req[w2].payload.kind = "absent"
        /\ req[w1].update = AddCraig /\ req[w2].update = AddMilk
        /\ Len(AssistantTodos(w1)) = 1 /\ Len(AssistantTodos(w2)) = 1
        /\ AssistantTodos(w1) # AssistantTodos(w2)

====
